---- MODULE Spec2Model ----
(***************************************************************************)
(* Model of src/info_agent.py: the InfoAgent pipeline                      *)
(*   generate_search_query -> search_brave -> extract_news_info ->         *)
(*   store_in_supabase -> time.sleep(1), repeated num_queries times by     *)
(*   fetch_financial_news and driven by the __main__ block.                *)
(*                                                                         *)
(* Python strings are sequences of one-character strings, so that the      *)
(* f-string rendering of extract_news_info and str.strip() are computed    *)
(* and not assumed.  The three remote services (OpenAI, Brave, Supabase)   *)
(* are the environment: each call picks one of the responses the client    *)
(* library can hand back, or raises.                                       *)
(***************************************************************************)
EXTENDS Integers, Sequences, FiniteSets, TLC

VARIABLES
    pc,             \* control position of the single thread
    env,            \* environment variables that are set (os.getenv)
    num_queries,    \* argument of fetch_financial_news
    i,              \* loop variable of fetch_financial_news
    query,          \* local `query`
    search_results, \* local `search_results`
    news_items,     \* local `news_items`
    item_idx,       \* position of the for loop of store_in_supabase
    success_count,  \* local `success_count` of store_in_supabase
    stored_count,   \* local `stored_count`
    total_stored,   \* local `total_stored`
    returned,       \* <<v>> once fetch_financial_news returned v, else <<>>
    exc,            \* name of the exception that reached __main__, "" if none
    log,            \* history of the external calls, in program order
    stdout,         \* lines printed so far
    db,             \* rows of table eco_info held by Supabase
    clock           \* wall clock in seconds (datetime.now / time.sleep)

vars == <<pc, env, num_queries, i, query, search_results, news_items,
          item_idx, success_count, stored_count, total_stored, returned,
          exc, log, stdout, db, clock>>

----------------------------------------------------------------------------
(* Bounds of the model                                                     *)

MaxQueries == 2      \* largest num_queries explored
MaxResults == 2      \* most results one search response carries
MaxItems   == 3      \* longest input of extract_news_info explored alone

(* Program constants                                                       *)

DefaultCount == 10   \* search_brave(query, count=10)
SleepSecs    == 1    \* time.sleep(1)
HttpOk       == 200  \* response.status_code == 200

----------------------------------------------------------------------------
(* Strings                                                                 *)

Whitespace == {" ", "\n", "\t"}

RECURSIVE lstrip(_)
lstrip(s) ==
    IF s # <<>> /\ Head(s) \in Whitespace THEN lstrip(Tail(s)) ELSE s

RECURSIVE rstrip(_)
rstrip(s) ==
    IF s # <<>> /\ s[Len(s)] \in Whitespace
    THEN rstrip(SubSeq(s, 1, Len(s) - 1))
    ELSE s

\* str.strip()
strip(s) == rstrip(lstrip(s))

----------------------------------------------------------------------------
(* Dictionaries are functions on a set of string keys; {} is <<>>.         *)

\* dict.get(key, default)
DictGet(d, key, default) == IF key \in DOMAIN d THEN d[key] ELSE default

EmptyDict == <<>>

----------------------------------------------------------------------------
(* extract_news_info                                                       *)

Fields == {"title", "description", "url", "published", "source"}

NL == <<"\n">>

TitleLabel       == <<"T","i","t","l","e",":"," ">>
DescriptionLabel == <<"D","e","s","c","r","i","p","t","i","o","n",":"," ">>
URLLabel         == <<"U","R","L",":"," ">>
SourceLabel      == <<"S","o","u","r","c","e",":"," ">>
PublishedLabel   == <<"P","u","b","l","i","s","h","e","d",":"," ">>

\* the dict literal `news_item = {...}` built from item.get(field, "")
news_item(item) ==
    [ title       |-> DictGet(item, "title", <<>>),
      description |-> DictGet(item, "description", <<>>),
      url         |-> DictGet(item, "url", <<>>),
      published   |-> DictGet(item, "published", <<>>),
      source      |-> DictGet(item, "source", <<>>) ]

\* variant: the lines rendered in the order of the keys of `news_item`
formatted_text_DictOrder(item) ==
    LET n  == news_item(item)
        t1 == TitleLabel \o n.title \o NL
        t2 == t1 \o DescriptionLabel \o n.description \o NL
        t3 == t2 \o URLLabel \o n.url \o NL
        t4 == t3 \o PublishedLabel \o n.published \o NL
        t5 == t4 \o SourceLabel \o n.source
    IN  t5

\* the five f-string pieces appended to `formatted_text`
formatted_text(item) ==
    LET n  == news_item(item)
        t1 == TitleLabel \o n.title \o NL
        t2 == t1 \o DescriptionLabel \o n.description \o NL
        t3 == t2 \o URLLabel \o n.url \o NL
        t4 == t3 \o SourceLabel \o n.source \o NL
        t5 == t4 \o PublishedLabel \o n.published
    IN  t5

\* whether x is one of the elements of the list acc
Contains(acc, x) == \E k \in DOMAIN acc : acc[k] = x

\* variant: an item whose text is already in the list is skipped
RECURSIVE ExtractLoop_Dedup(_, _, _)
ExtractLoop_Dedup(results, k, acc) ==
    IF k > Len(results)
    THEN acc
    ELSE ExtractLoop_Dedup(results, k + 1,
             IF Contains(acc, formatted_text(results[k]))
             THEN acc
             ELSE Append(acc, formatted_text(results[k])))

\* the for loop: `news_items` starts empty and gets one append per item
RECURSIVE ExtractLoop(_, _, _)
ExtractLoop(results, k, acc) ==
    IF k > Len(results)
    THEN acc
    ELSE ExtractLoop(results, k + 1, Append(acc, formatted_text(results[k])))

extract_news_info(results) == ExtractLoop(results, 1, <<>>)

----------------------------------------------------------------------------
(* Inputs of the environment                                               *)

Credentials == {"BRAVE_API_KEY", "OPENAI_API_KEY", "SUPABASE_URL", "SUPABASE_KEY"}

\* os.getenv: every credential set, or exactly one of them missing
Environments == {Credentials} \cup {Credentials \ {c} : c \in Credentials}

\* values a field of a raw result can carry
Values == { <<>>, <<"x">>, <<"y", " ", "z">> }

\* every raw result over the five fields: any subset present, any value
RawResults == UNION { [S -> Values] : S \in SUBSET Fields }

\* three raw results used by the search responses: a complete one, one
\* lacking three fields but with a key the formatter ignores, and an empty one
RawSample ==
    << [ title |-> <<"x">>, description |-> <<"y", " ", "z">>, url |-> <<"x">>,
         published |-> <<"y", " ", "z">>, source |-> <<>> ],
       [ title |-> <<"x">>, url |-> <<"x">>, age |-> <<"x">> ],
       EmptyDict >>

\* the first k results of the endless list RawSample, RawSample, ...
Canned(k) == [ j \in 1..k |-> RawSample[((j - 1) % Len(RawSample)) + 1] ]

\* message contents of a completion choice
Contents == { <<"q">>, <<" ", "q", "\n">>, <<"\t", "q", " ", "r", " ">> }

\* chat.completions.create returns a response object with `choices`
OpenAIResponses ==
    { [choices |-> <<>>] } \cup
    { [choices |-> <<c>>] : c \in Contents } \cup
    { [choices |-> <<c, <<"q">> >>] : c \in Contents }

\* requests.get returns a response with a status and a JSON body
BraveBodies ==
    { [web |-> [results |-> Canned(k)]] : k \in 0..MaxResults } \cup
    { EmptyDict, [web |-> EmptyDict] }

ErrorStatuses == {404, 429, 500}

\* the body of an error response is a JSON document too
ErrorBodies == { EmptyDict, [web |-> [results |-> Canned(1)]] }

BraveResponses ==
    { [status_code |-> HttpOk, body |-> b] : b \in BraveBodies } \cup
    { [status_code |-> s, body |-> b] : s \in ErrorStatuses, b \in ErrorBodies }

\* inputs of extract_news_info when it is exercised on its own
RECURSIVE SeqsUpTo(_, _)
SeqsUpTo(S, n) ==
    IF n = 0 THEN { <<>> }
    ELSE LET shorter == SeqsUpTo(S, n - 1)
         IN  shorter \cup { Append(q, x) : q \in shorter, x \in S }

SampleSet == { RawSample[k] : k \in DOMAIN RawSample }

FormatInputs ==
    SeqsUpTo(SampleSet, MaxItems) \cup { <<r>> : r \in RawResults }

----------------------------------------------------------------------------
(* Histories                                                               *)

\* one external step: op in generate/search/format/insert/sleep, the
\* iteration it belongs to, a number (HTTP status, number of formatted
\* items, 1-based row, seconds slept) and how it ended
Event(op, iter, arg, out) == [op |-> op, iter |-> iter, arg |-> arg, out |-> out]

\* one printed line: its kind and the number it shows
Line(kind, n) == [line |-> kind, n |-> n]

----------------------------------------------------------------------------
(* Initial state: the process starts at the __main__ block                 *)

Locals ==
    /\ i = 0
    /\ query = <<>>
    /\ news_items = <<>>
    /\ item_idx = 1
    /\ success_count = 0
    /\ stored_count = 0
    /\ total_stored = 0
    /\ returned = <<>>
    /\ exc = ""
    /\ log = <<>>
    /\ stdout = <<>>
    /\ db = <<>>
    /\ clock = 0

Init ==
    /\ pc = "main"
    /\ env \in Environments
    /\ num_queries \in -1..MaxQueries
    /\ search_results = <<>>
    /\ Locals

----------------------------------------------------------------------------
(* Exceptions: nothing below __main__ has a try block, so whatever is      *)
(* raised reaches `except Exception as e: print(f"Error: {e}")`.           *)

Raise(e) ==
    /\ pc' = "exited"
    /\ exc' = e
    /\ stdout' = Append(stdout, Line("Error", 0))

\* InfoAgent.__init__: both checks of the credentials
CredentialsOk(e) ==
    /\ "BRAVE_API_KEY" \in e /\ "OPENAI_API_KEY" \in e
    /\ "SUPABASE_URL" \in e /\ "SUPABASE_KEY" \in e

\* agent = InfoAgent()
Construct ==
    /\ pc = "main"
    /\ IF CredentialsOk(env)
       THEN pc' = "fetch" /\ UNCHANGED <<exc, stdout>>
       ELSE Raise("ValueError")
    /\ UNCHANGED <<env, num_queries, i, query, search_results, news_items,
                   item_idx, success_count, stored_count, total_stored,
                   returned, log, db, clock>>

\* variant: the range taken to include its end
InRange_Inclusive(k, n) == k <= n

\* `for i in range(num_queries)`: is k one of the values of the range?
InRange(k, n) == k < n

\* where the loop goes once i has the value k
LoopTarget(k, n) == IF InRange(k, n) THEN "generate" ELSE "return"

\* entry of fetch_financial_news: total_stored = 0 and the first loop test
FetchEnter ==
    /\ pc = "fetch"
    /\ total_stored' = 0
    /\ i' = 0
    /\ pc' = LoopTarget(0, num_queries)
    /\ UNCHANGED <<env, num_queries, query, search_results, news_items,
                   item_idx, success_count, stored_count, returned, exc,
                   log, stdout, db, clock>>

\* response.choices[0].message.content.strip()
FirstChoice(response) == strip(response.choices[1])

\* variant: a failed completion is replaced by a fixed query
Generate_Fallback ==
    /\ pc = "generate"
    /\ \/ \E response \in OpenAIResponses :
            /\ query' = IF response.choices = <<>>
                        THEN <<"q">>
                        ELSE FirstChoice(response)
            /\ log' = Append(log, Event("generate", i, 0,
                                        IF response.choices = <<>>
                                        THEN "nochoices" ELSE "ok"))
       \/ /\ query' = <<"q">>
          /\ log' = Append(log, Event("generate", i, 0, "raise"))
    /\ stdout' = Append(stdout, Line("Searching for", 0))
    /\ pc' = "search"
    /\ UNCHANGED <<env, num_queries, i, search_results, news_items, item_idx,
                   success_count, stored_count, total_stored, returned, db,
                   clock, exc>>

\* generate_search_query, then print(f"Searching for: {query}")
Generate ==
    /\ pc = "generate"
    /\ \/ \E response \in OpenAIResponses :
            IF response.choices = <<>>
            THEN /\ Raise("IndexError")
                 /\ log' = Append(log, Event("generate", i, 0, "nochoices"))
                 /\ UNCHANGED query
            ELSE /\ query' = FirstChoice(response)
                 /\ log' = Append(log, Event("generate", i, 0, "ok"))
                 /\ stdout' = Append(stdout, Line("Searching for", 0))
                 /\ pc' = "search"
                 /\ UNCHANGED exc
       \/ /\ Raise("OpenAIError")
          /\ log' = Append(log, Event("generate", i, 0, "raise"))
          /\ UNCHANGED query
    /\ UNCHANGED <<env, num_queries, i, search_results, news_items, item_idx,
                   success_count, stored_count, total_stored, returned, db,
                   clock>>

\* variant: the body is read whatever the status
search_brave_result_AnyStatus(response) ==
    DictGet(DictGet(response.body, "web", EmptyDict), "results", <<>>)

\* the value search_brave returns for a response of requests.get
search_brave_result(response) ==
    IF response.status_code = HttpOk
    THEN DictGet(DictGet(response.body, "web", EmptyDict), "results", <<>>)
    ELSE <<>>

\* search_results = self.search_brave(query)
Search ==
    /\ pc = "search"
    /\ \/ \E response \in BraveResponses :
            /\ search_results' = search_brave_result(response)
            /\ Len(search_results') <= DefaultCount
            /\ log' = Append(log, Event("search", i, response.status_code, "ok"))
            /\ stdout' = IF response.status_code = HttpOk
                         THEN stdout
                         ELSE Append(stdout, Line("Error searching Brave",
                                                  response.status_code))
            /\ pc' = "format"
            /\ UNCHANGED exc
       \/ /\ Raise("ConnectionError")
          /\ log' = Append(log, Event("search", i, 0, "raise"))
          /\ UNCHANGED search_results
    /\ UNCHANGED <<env, num_queries, i, query, news_items, item_idx,
                   success_count, stored_count, total_stored, returned, db,
                   clock>>

\* news_items = self.extract_news_info(search_results), then the entry of
\* store_in_supabase: success_count = 0
Format ==
    /\ pc = "format"
    /\ news_items' = extract_news_info(search_results)
    /\ log' = Append(log, Event("format", i, Len(news_items'), "ok"))
    /\ success_count' = 0
    /\ item_idx' = 1
    /\ pc' = "store"
    /\ UNCHANGED <<env, num_queries, i, query, search_results, stored_count,
                   total_stored, returned, exc, stdout, db, clock>>

----------------------------------------------------------------------------
(* store_in_supabase                                                       *)

\* data = {"timestamp": datetime.now().isoformat(), "finance_info": item}
Row(now, item) == [timestamp |-> now, finance_info |-> item]

\* what .execute() can hand back for a row: the inserted row echoed in
\* `data`, an empty `data`, or an object without a `data` attribute
InsertResults(row) ==
    { [data |-> <<row>>], [data |-> <<>>], [count |-> 0] }

\* hasattr(result, 'data') and result.data
InsertCounted(result) == "data" \in DOMAIN result /\ result.data # <<>>

\* variant: any result with a `data` attribute counts
CountAfter_AnyData(count, result) ==
    IF "data" \in DOMAIN result THEN count + 1 ELSE count

\* success_count after the if/else on one result
CountAfter(count, result) ==
    IF InsertCounted(result) THEN count + 1 ELSE count

\* variant: the loop is left at the first result that is not counted
NextIdx_Break(idx, result, n) ==
    IF InsertCounted(result) THEN idx + 1 ELSE n + 1

\* the for loop moves on to the next item whatever the result was
NextIdx(idx, result, n) == idx + 1

\* one pass of the for loop of store_in_supabase: one insert call.  The
\* table gains the row exactly when the response echoes it.
Insert ==
    /\ pc = "store"
    /\ item_idx <= Len(news_items)
    /\ LET row == Row(clock, news_items[item_idx]) IN
       \/ \E result \in InsertResults(row) :
            /\ success_count' = CountAfter(success_count, result)
            /\ db' = IF InsertCounted(result) THEN Append(db, row) ELSE db
            /\ stdout' = IF InsertCounted(result)
                         THEN stdout
                         ELSE Append(stdout, Line("Error storing item", item_idx))
            /\ log' = Append(log, Event("insert", i, item_idx,
                                        IF InsertCounted(result)
                                        THEN "data" ELSE "nodata"))
            /\ item_idx' = NextIdx(item_idx, result, Len(news_items))
            /\ UNCHANGED <<pc, exc>>
       \/ /\ Raise("APIError")
          /\ log' = Append(log, Event("insert", i, item_idx, "raise"))
          /\ UNCHANGED <<success_count, db, item_idx>>
    /\ UNCHANGED <<env, num_queries, i, query, search_results, news_items,
                   stored_count, total_stored, returned, clock>>

\* variant: `=` in place of `+=`
Accumulate_Overwrite(total, count) == count

\* total_stored += stored_count
Accumulate(total, count) == total + count

\* `return success_count`, then back in fetch_financial_news:
\* total_stored += stored_count and print(f"Stored {stored_count} items ...")
StoreReturn ==
    /\ pc = "store"
    /\ item_idx > Len(news_items)
    /\ stored_count' = success_count
    /\ total_stored' = Accumulate(total_stored, stored_count')
    /\ stdout' = Append(stdout, Line("Stored", stored_count'))
    /\ pc' = "sleep"
    /\ UNCHANGED <<env, num_queries, i, query, search_results, news_items,
                   item_idx, success_count, returned, exc, log, db, clock>>

\* variant: the delay only between two iterations, not after the last
Sleep_OnlyBetween ==
    /\ pc = "sleep"
    /\ IF InRange(i + 1, num_queries)
       THEN /\ clock' = clock + SleepSecs
            /\ log' = Append(log, Event("sleep", i, SleepSecs, "ok"))
       ELSE UNCHANGED <<clock, log>>
    /\ i' = IF InRange(i + 1, num_queries) THEN i + 1 ELSE i
    /\ pc' = LoopTarget(i + 1, num_queries)
    /\ UNCHANGED <<env, num_queries, query, search_results, news_items,
                   item_idx, success_count, stored_count, total_stored,
                   returned, exc, stdout, db>>

\* time.sleep(1), then the next loop test
Sleep ==
    /\ pc = "sleep"
    /\ clock' = clock + SleepSecs
    /\ log' = Append(log, Event("sleep", i, SleepSecs, "ok"))
    /\ i' = IF InRange(i + 1, num_queries) THEN i + 1 ELSE i
    /\ pc' = LoopTarget(i + 1, num_queries)
    /\ UNCHANGED <<env, num_queries, query, search_results, news_items,
                   item_idx, success_count, stored_count, total_stored,
                   returned, exc, stdout, db>>

\* `return total_stored`, then print(f"Total news items stored: {total}")
Return ==
    /\ pc = "return"
    /\ returned' = <<total_stored>>
    /\ stdout' = Append(stdout, Line("Total", total_stored))
    /\ pc' = "exited"
    /\ UNCHANGED <<env, num_queries, i, query, search_results, news_items,
                   item_idx, success_count, stored_count, total_stored, exc,
                   log, db, clock>>

Next ==
    \/ Construct
    \/ FetchEnter
    \/ Generate
    \/ Search
    \/ Format
    \/ Insert
    \/ StoreReturn
    \/ Sleep
    \/ Return

Spec == Init /\ [][Next]_vars

----------------------------------------------------------------------------
(* extract_news_info called on its own, on any list of raw results         *)

InitFormat ==
    /\ pc = "extract"
    /\ env = Credentials
    /\ num_queries = 0
    /\ search_results \in FormatInputs
    /\ Locals

ExtractCall ==
    /\ pc = "extract"
    /\ news_items' = extract_news_info(search_results)
    /\ pc' = "extracted"
    /\ UNCHANGED <<env, num_queries, i, query, search_results, item_idx,
                   success_count, stored_count, total_stored, returned, exc,
                   log, stdout, db, clock>>

NextFormat == ExtractCall

SpecFormat == InitFormat /\ [][NextFormat]_vars

----------------------------------------------------------------------------
(* Reading the histories                                                   *)

Max(a, b) == IF a >= b THEN a ELSE b

\* positions of the log holding a step `op`, of any iteration or of one
Ops(op) == { p \in DOMAIN log : log[p].op = op }
OpsIn(op, it) == { p \in Ops(op) : log[p].iter = it }

\* insert calls whose response carried a non-empty data payload
DataInserts == { p \in Ops("insert") : log[p].out = "data" }
DataInsertsIn(it) == { p \in DataInserts : log[p].iter = it }
DataInsertsBefore(it) == { p \in DataInserts : log[p].iter < it }

\* an external call that raised
RaisedAt(p) == log[p].out \in {"raise", "nochoices"}

\* number of formatted items of iteration it, -1 before the format step
ItemsOf(it) ==
    IF OpsIn("format", it) = {} THEN -1
    ELSE log[CHOOSE p \in OpsIn("format", it) : TRUE].arg

\* store_in_supabase has returned in iteration it
StoreDone(it) == OpsIn("sleep", it) # {} \/ (pc = "sleep" /\ i = it)

\* the lines of a text, split at every newline
RECURSIVE SplitLines(_, _, _)
SplitLines(s, cur, acc) ==
    IF s = <<>> THEN Append(acc, cur)
    ELSE IF Head(s) = "\n"
         THEN SplitLines(Tail(s), <<>>, Append(acc, cur))
         ELSE SplitLines(Tail(s), Append(cur, Head(s)), acc)

Lines(text) == SplitLines(text, <<>>, <<>>)

\* the value of a field of a raw result, empty when the field is absent
ValueOf(item, f) == IF f \in DOMAIN item THEN item[f] ELSE <<>>

\* the five lines a raw result has to be rendered as
ExpectedLines(item) ==
    << TitleLabel \o ValueOf(item, "title"),
       DescriptionLabel \o ValueOf(item, "description"),
       URLLabel \o ValueOf(item, "url"),
       SourceLabel \o ValueOf(item, "source"),
       PublishedLabel \o ValueOf(item, "published") >>

----------------------------------------------------------------------------
(* C1: the external steps of a run come in the order generate -> search -> *)
(* format -> the inserts of the iteration, one per formatted item ->       *)
(* sleep of 1, iteration it+1 starting only after the sleep of iteration   *)
(* it; a run in which nothing raised makes exactly max(num_queries, 0)     *)
(* generate, search, format and sleep steps and ends on a sleep.           *)

Follows(a, b) ==
    /\ ~ (a.out \in {"raise", "nochoices"})
    /\ CASE a.op = "generate" -> b.op = "search" /\ b.iter = a.iter
         [] a.op = "search"   -> b.op = "format" /\ b.iter = a.iter
         [] a.op = "format"   -> /\ b.iter = a.iter
                                 /\ IF a.arg = 0
                                    THEN b.op = "sleep"
                                    ELSE b.op = "insert" /\ b.arg = 1
         [] a.op = "insert"   -> /\ b.iter = a.iter
                                 /\ IF a.arg = ItemsOf(a.iter)
                                    THEN b.op = "sleep"
                                    ELSE b.op = "insert" /\ b.arg = a.arg + 1
         [] a.op = "sleep"    -> /\ a.arg = 1
                                 /\ b.op = "generate" /\ b.iter = a.iter + 1
         [] OTHER             -> FALSE

C1_FixedOrder ==
    /\ log # <<>> => log[1].op = "generate" /\ log[1].iter = 0
    /\ \A p \in 1..(Len(log) - 1) : Follows(log[p], log[p + 1])
    /\ \A p \in DOMAIN log : log[p].iter < num_queries
    /\ (pc = "exited" /\ exc = "" /\ returned # <<>>) =>
          /\ Cardinality(Ops("generate")) = Max(num_queries, 0)
          /\ Cardinality(Ops("search")) = Max(num_queries, 0)
          /\ Cardinality(Ops("format")) = Max(num_queries, 0)
          /\ Cardinality(Ops("sleep")) = Max(num_queries, 0)
          /\ clock = Max(num_queries, 0)
          /\ log # <<>> => log[Len(log)].op = "sleep"

C1_Witness ==
    /\ pc = "exited" /\ exc = "" /\ num_queries = 2
    /\ Cardinality(Ops("insert")) = 3
    /\ Cardinality(Ops("sleep")) = 2

(* C2: the value fetch_financial_news returns is the number of insert      *)
(* calls of the whole run whose response carried a non-empty data payload; *)
(* when every search gave k results and every insert succeeded, a run with *)
(* num_queries = N >= 0 returns N * k.                                     *)

C2_TotalIsSum ==
    (pc = "exited" /\ returned # <<>>) =>
        /\ returned[1] = Cardinality(DataInserts)
        /\ \A k \in 0..MaxResults :
              ( /\ num_queries >= 0
                /\ \A p \in Ops("format") : log[p].arg = k
                /\ \A p \in Ops("insert") : log[p].out = "data" )
              => returned[1] = num_queries * k

C2_Witness ==
    /\ pc = "exited" /\ num_queries = 2 /\ returned = <<4>>
    /\ \A p \in Ops("format") : log[p].arg = 2

(* C3: when store_in_supabase returns, its value is the number of its      *)
(* insert calls whose response carried a non-empty data payload, between 0 *)
(* and the number of records, and 0 for an empty list.                     *)

C3_CountsDataOnly ==
    pc = "sleep" =>
        /\ stored_count = Cardinality(DataInsertsIn(i))
        /\ 0 <= stored_count /\ stored_count <= Len(news_items)
        /\ news_items = <<>> => stored_count = 0

C3_Witness ==
    /\ pc = "sleep" /\ Len(news_items) = 2 /\ stored_count = 1
    /\ \E p \in OpsIn("insert", i) : log[p].arg = 1 /\ log[p].out = "nodata"
    /\ \E p \in OpsIn("insert", i) : log[p].arg = 2 /\ log[p].out = "data"

(* C4: once store_in_supabase has returned in an iteration, the insert     *)
(* calls of that iteration are exactly one per record, rows 1..n in input  *)
(* order right after the format step, whatever their outcomes; the rows    *)
(* the table gained are the records of the successful calls, in order.     *)

C4_OneInsertPerRecord ==
    \A it \in 0..(num_queries - 1) :
        StoreDone(it) =>
            LET f == CHOOSE p \in OpsIn("format", it) : TRUE
                n == log[f].arg
            IN  /\ Cardinality(OpsIn("insert", it)) = n
                /\ \A j \in 1..n :
                      /\ f + j \in OpsIn("insert", it)
                      /\ log[f + j].arg = j
                /\ (it = i /\ pc = "sleep") =>
                      /\ n = Len(news_items)
                      /\ \A p \in DataInsertsIn(it) :
                            LET rank == Cardinality({ q \in DataInsertsIn(it) : q <= p })
                                at   == Cardinality(DataInsertsBefore(it)) + rank
                            IN  /\ at \in DOMAIN db
                                /\ db[at].finance_info = news_items[log[p].arg]

C4_Witness ==
    /\ pc = "sleep" /\ Len(news_items) = 2
    /\ \E p \in OpsIn("insert", i) : log[p].arg = 1 /\ log[p].out = "nodata"
    /\ Cardinality(OpsIn("insert", i)) = 2
    /\ Len(db) > 0

(* C5: a search answered with a status other than 200 does not raise and   *)
(* yields no results; the iteration formats nothing, inserts nothing, adds *)
(* 0 to the total, sleeps, and the run goes on to the next iteration.      *)

ErrorSearch(p) == log[p].op = "search" /\ log[p].out = "ok" /\ log[p].arg # 200

C5_ErrorStatusDegrades ==
    \A p \in DOMAIN log :
        ErrorSearch(p) =>
            LET it == log[p].iter IN
            /\ exc = "" \/ p + 2 \in DOMAIN log
            /\ (p = Len(log)) => pc = "format" /\ search_results = <<>>
            /\ (p + 1 \in DOMAIN log) =>
                  log[p + 1].op = "format" /\ log[p + 1].arg = 0
            /\ (p + 1 = Len(log)) =>
                  /\ pc \in {"store", "sleep"} /\ news_items = <<>>
                  /\ pc = "sleep" =>
                        /\ stored_count = 0
                        /\ total_stored = Cardinality(DataInsertsBefore(it))
            /\ (p + 2 \in DOMAIN log) =>
                  log[p + 2].op = "sleep" /\ log[p + 2].iter = it
            /\ (p + 2 = Len(log)) =>
                  /\ total_stored = Cardinality(DataInsertsBefore(it))
                  /\ pc = IF it + 1 < num_queries THEN "generate" ELSE
                          IF returned = <<>> THEN "return" ELSE "exited"
            /\ (p + 3 \in DOMAIN log) =>
                  log[p + 3].op = "generate" /\ log[p + 3].iter = it + 1

C5_Witness ==
    /\ \E p \in DOMAIN log :
          /\ ErrorSearch(p) /\ log[p].arg = 500 /\ log[p].iter = 0
          /\ p + 4 \in DOMAIN log /\ log[p + 4].op = "search"
    /\ pc = "exited" /\ returned # <<>> /\ returned[1] > 0

(* C6: a network or API error raised by the search request or by an insert *)
(* call is not fatal, the run goes on and still returns a total.           *)

C6_RaisedErrorsNotFatal ==
    \A p \in DOMAIN log :
        (log[p].op \in {"search", "insert"} /\ log[p].out = "raise") =>
            /\ exc = ""
            /\ pc = "exited" => returned # <<>>

(* C7: a language-model call that raises or returns no choices ends the    *)
(* run: it is the last external step, nothing is returned, no total is     *)
(* printed, the last printed line is the error line, the process has       *)
(* exited, and the table still holds the rows of the earlier iterations.   *)

C7_GenerateFailurePropagates ==
    \A p \in DOMAIN log :
        (log[p].op = "generate" /\ RaisedAt(p)) =>
            /\ p = Len(log)
            /\ pc = "exited"
            /\ exc \in {"OpenAIError", "IndexError"}
            /\ returned = <<>>
            /\ \A k \in DOMAIN stdout : stdout[k].line # "Total"
            /\ stdout[Len(stdout)].line = "Error"
            /\ Cardinality(OpsIn("search", log[p].iter)) = 0
            /\ Cardinality(OpsIn("sleep", log[p].iter)) = 0
            /\ Len(db) = Cardinality(DataInsertsBefore(log[p].iter))
            /\ Len(db) = Cardinality(DataInserts)

C7_Witness ==
    /\ pc = "exited" /\ log # <<>>
    /\ log[Len(log)].op = "generate" /\ log[Len(log)].iter = 1
    /\ log[Len(log)].out = "nochoices"
    /\ Len(db) = 2

(* C8: extract_news_info returns one text per raw result, in input order,  *)
(* the j-th text rendering the j-th result and nothing else; equal results *)
(* give equal texts and the empty list gives the empty list.               *)

C8_OneToOneInOrder ==
    pc = "extracted" =>
        /\ Len(news_items) = Len(search_results)
        /\ \A j \in DOMAIN search_results :
              Lines(news_items[j]) = ExpectedLines(search_results[j])
        /\ search_results = <<>> => news_items = <<>>

C8_Witness ==
    /\ pc = "extracted" /\ Len(search_results) = 3 /\ Len(news_items) = 3
    /\ search_results[1] = search_results[3]
    /\ search_results[1] # search_results[2]
    /\ news_items[1] = news_items[3]
    /\ news_items[1] # news_items[2]

(* C9: whatever fields a raw result lacks, its text has exactly five       *)
(* lines, labelled Title, Description, URL, Source, Published in that      *)
(* order, the line of an absent field holding the label and nothing else.  *)

LabelOf ==
    << TitleLabel, DescriptionLabel, URLLabel, SourceLabel, PublishedLabel >>

FieldOf == << "title", "description", "url", "source", "published" >>

C9_FiveLabelledLines ==
    pc = "extracted" =>
        \A j \in DOMAIN search_results :
            LET ls == Lines(news_items[j]) IN
            /\ Len(ls) = 5
            /\ \A k \in 1..5 :
                  /\ Len(ls[k]) >= Len(LabelOf[k])
                  /\ SubSeq(ls[k], 1, Len(LabelOf[k])) = LabelOf[k]
                  /\ FieldOf[k] \notin DOMAIN search_results[j] =>
                        ls[k] = LabelOf[k]
                  /\ FieldOf[k] \in DOMAIN search_results[j] =>
                        SubSeq(ls[k], Len(LabelOf[k]) + 1, Len(ls[k]))
                            = search_results[j][FieldOf[k]]

C9_Witness ==
    /\ pc = "extracted" /\ Len(search_results) = 1
    /\ DOMAIN search_results[1] = {"description", "published"}
    /\ search_results[1].published = <<"x">>
    /\ Len(Lines(news_items[1])) = 5

(* C10: with num_queries zero or negative no external step is ever taken,  *)
(* the clock does not move, the table is untouched and the run returns 0.  *)

C10_NoIterations ==
    num_queries <= 0 =>
        /\ log = <<>>
        /\ clock = 0
        /\ db = <<>>
        /\ pc \in {"main", "fetch", "return", "exited"}
        /\ (pc = "exited" /\ exc = "") => returned = <<0>>

C10_Witness ==
    /\ num_queries = -1 /\ pc = "exited" /\ returned = <<0>> /\ log = <<>>

====
